---- MODULE Spec2Model ----
(***************************************************************************)
(* State-machine model of lock.py (terminal lock screen) and of the plain  *)
(* player.py loop.  One action per statement group of the source; pc is    *)
(* the position of the single Python thread.  SIGINT is Python's default   *)
(* disposition: KeyboardInterrupt raised in the main thread at whatever    *)
(* statement is executing.                                                 *)
(***************************************************************************)
EXTENDS Integers, Sequences, FiniteSets, TLC

VARIABLES
    pc,              \* position of the main thread
    current_frame,   \* play_animation: resume index
    frame_num,       \* play_animation: for-loop variable (0: not in the for loop)
    missing,         \* frame indices whose file does not exist
    broken,          \* frame indices whose text the terminal write rejects
    backend,         \* credential mechanism of the host
    alt_screen,      \* terminal: alternate screen buffer active
    cursor_visible,  \* terminal: cursor shown
    raw,             \* terminal: input mode is raw
    old_settings,    \* getch: attributes saved by tcgetattr ("none", "cooked", "raw")
    handlers,        \* signals whose handler signal.signal has installed
    in_handler,      \* signal handler currently executing ("none" when none)
    password,        \* get_hidden_input: the buffer
    field_pos,       \* get_hidden_input: mask cursor offset
    success,         \* verify_password: result of the credential check (FALSE before it)
    exc,             \* verify_password: the exception e caught by except Exception
    exit_cause,      \* why the process ended ("none" while it runs)
    restores,        \* number of restore_terminal_state calls so far
    verified,        \* verify_password returned True for the current attempt
    records,         \* AttemptRecords emitted since the gate was entered
    log,             \* the records log_attempt wrote since the gate was entered
    last_key,        \* the key the last completed getch returned ("none" outside the prompt)
    int_at,          \* frame whose sleep the last SIGINT interrupted (0: none)
    rendered         \* last frame handed to render_frame since start or resume (0: none)

envv  == <<missing, broken, backend>>
term  == <<alt_screen, cursor_visible, raw, old_settings>>
anim  == <<current_frame, frame_num>>
gate  == <<password, field_pos, success, exc, last_key>>
hist  == <<exit_cause, restores, verified, records, log, int_at, rendered>>
vars  == <<pc, envv, term, anim, gate, hist, handlers, in_handler>>

(***************************************************************************)
(* Program constants.                                                      *)
(***************************************************************************)
RangeEnd   == 236
FrameCount == RangeEnd - 1
FieldWidth == 20

(***************************************************************************)
(* Bounds of the model.                                                    *)
(***************************************************************************)
\* Longest secret typed in one gate cycle of the full program model.
MaxTyped == 3
\* Largest mask offset followed in the key-reader model (end-of-input reads
\* advance field_pos without bound).
MaxFieldPos == 21
\* Most control characters held in the buffer in the key-reader model.
MaxCtl == 1

(***************************************************************************)
(* Inputs.                                                                 *)
(***************************************************************************)
Enter     == "\r"
CtrlC     == "^C"
CtrlU     == "^U"
Backspace == "DEL"
Tab       == "\t"
EOF       == ""
\* A byte that is not valid UTF-8: sys.stdin hands it over as the lone
\* surrogate "\udce9".
HighByte  == "\\xE9"

\* No exception is being handled.
NoException == [kind |-> "none", quoted |-> <<>>]
\* str(e) of the exceptions verify_password catches: the kind of the
\* error, and the characters of the offending string the message quotes.
PermissionError    == [kind |-> "PermissionError", quoted |-> <<>>]
FileNotFoundError  == [kind |-> "FileNotFoundError", quoted |-> <<>>]
UnicodeEncodeError(pw) ==
    [kind |-> "UnicodeEncodeError",
     quoted |-> <<pw[CHOOSE i \in 1..Len(pw) :
                        /\ pw[i] = HighByte
                        /\ \A j \in 1..(i - 1) : pw[j] # HighByte]>>]

\* The account's real password, over the printable key "a".
Secret == <<"a", "a">>

\* The hosts the program is run on: <<missing frame files, frames whose text
\* the terminal write rejects, credential mechanism>>.  shadow: spwd and
\* crypt work; dscl: they do not import and dscl exists; denied: spwd
\* imports and getspnam raises; absent: neither imports nor dscl exists.
Hosts == { <<{}, {}, "shadow">>,
           <<{10, 235}, {57}, "dscl">>,
           <<{}, {}, "denied">>,
           <<{}, {}, "absent">> }

\* The printable keys of the keyboard.
Printable == {"a"}

ProgramKeys == Printable \cup {Enter, CtrlC, CtrlU, Backspace}
ReaderKeys  == ProgramKeys \cup {Tab, EOF}

At(p) == pc = p /\ in_handler = "none"

Init ==
    /\ pc = "main_log"
    /\ current_frame = 1
    /\ frame_num = 0
    /\ \E h \in Hosts :
          /\ missing = h[1]
          /\ broken = h[2]
          /\ backend = h[3]
    /\ alt_screen = FALSE
    /\ cursor_visible = TRUE
    /\ raw = FALSE
    /\ old_settings = "none"
    /\ handlers = {}
    /\ in_handler = "none"
    /\ password = <<>>
    /\ field_pos = 0
    /\ success = FALSE
    /\ exc = NoException
    /\ exit_cause = "none"
    /\ restores = 0
    /\ verified = FALSE
    /\ records = 0
    /\ log = <<>>
    /\ last_key = "none"
    /\ int_at = 0
    /\ rendered = 0

(***************************************************************************)
(* Terminal Mode Controller.                                               *)
(***************************************************************************)
\* save_terminal_state: "\033[?1049h\033[?25l".
save_terminal_state ==
    /\ alt_screen' = TRUE
    /\ cursor_visible' = FALSE

\* restore_terminal_state: "\033[?25h\033[?1049l"; the call is counted.
restore_terminal_state ==
    /\ cursor_visible' = TRUE
    /\ alt_screen' = FALSE
    /\ restores' = restores + 1

(***************************************************************************)
(* __main__ and the startup of play_animation.                             *)
(***************************************************************************)
\* __main__: the three logging.info calls, then play_animation() is entered.
\* os.getcwd() or the log write may raise: the __main__ handler takes over.
main_start ==
    /\ At("main_log")
    /\ \/ pc' = "save"
       \/ pc' = "main_except"
    /\ UNCHANGED <<envv, term, anim, gate, hist, handlers, in_handler>>

\* play_animation: save_terminal_state() inside the outer try; a failed
\* write raises into the outer except Exception.
startup_save ==
    /\ At("save")
    /\ \/ /\ save_terminal_state
          /\ pc' = "install_tstp"
       \/ /\ pc' = "pa_except"
          /\ UNCHANGED <<alt_screen, cursor_visible>>
    /\ UNCHANGED <<envv, raw, old_settings, anim, gate, hist, handlers, in_handler>>

\* signal.signal(SIGTSTP, sigtstp_handler)
install_sigtstp ==
    /\ At("install_tstp")
    /\ handlers' = handlers \cup {"SIGTSTP"}
    /\ pc' = "install_quit"
    /\ UNCHANGED <<envv, term, anim, gate, hist, in_handler>>

\* signal.signal(SIGQUIT, sigquit_handler)
install_sigquit ==
    /\ At("install_quit")
    /\ handlers' = handlers \cup {"SIGQUIT"}
    /\ pc' = "log_start"
    /\ UNCHANGED <<envv, term, anim, gate, hist, in_handler>>

\* logging.info("Terminal lock started by ..."): pwd.getpwuid may raise.
log_start ==
    /\ At("log_start")
    /\ \/ pc' = "while"
       \/ pc' = "pa_except"
    /\ UNCHANGED <<envv, term, anim, gate, hist, handlers, in_handler>>

(***************************************************************************)
(* The render loop of play_animation.                                      *)
(***************************************************************************)
\* The for statement's next value: frame_num + 1, or the end of the range.
ForNext(n) == IF n + 1 < RangeEnd THEN "fetch" ELSE "wrap"

\* Variant: the loop restarts at frame 1 whatever current_frame holds.
loop_enter_FromOne ==
    /\ At("while")
    /\ frame_num' = 1
    /\ pc' = "fetch"
    /\ success' = FALSE
    /\ exc' = NoException
    /\ records' = 0
    /\ log' = <<>>
    /\ UNCHANGED <<envv, term, current_frame, password, field_pos, last_key, exit_cause,
                   restores, verified, int_at, rendered, handlers, in_handler>>

\* while True: try: for frame_num in range(current_frame, 236).  The result
\* and the record count of a finished gate cycle are dropped here.
loop_enter ==
    /\ At("while")
    /\ frame_num' = current_frame
    /\ pc' = IF current_frame < RangeEnd THEN "fetch" ELSE "wrap"
    /\ success' = FALSE
    /\ exc' = NoException
    /\ records' = 0
    /\ log' = <<>>
    /\ UNCHANGED <<envv, term, current_frame, password, field_pos, last_key, exit_cause,
                   restores, verified, int_at, rendered, handlers, in_handler>>

\* Variant: a missing frame file raises into the outer except Exception.
fetch_frame_Halt ==
    /\ At("fetch")
    /\ IF frame_num \in missing
         THEN /\ pc' = "pa_except"
              /\ UNCHANGED <<frame_num, rendered, int_at>>
         ELSE /\ pc' = "render_clear"
              /\ rendered' = frame_num
              /\ int_at' = 0
              /\ UNCHANGED frame_num
    /\ UNCHANGED <<envv, term, current_frame, gate, exit_cause, restores, verified,
                   records, log, handlers, in_handler>>

\* frame_path; os.path.exists: a missing frame is logged and skipped
\* (continue); otherwise the file is read and handed to render_frame.
fetch_frame ==
    /\ At("fetch")
    /\ IF frame_num \in missing
         THEN /\ pc' = ForNext(frame_num)
              /\ frame_num' = IF frame_num + 1 < RangeEnd THEN frame_num + 1 ELSE frame_num
              /\ UNCHANGED <<rendered, int_at>>
         ELSE /\ pc' = "render_clear"
              /\ rendered' = frame_num
              /\ int_at' = 0
              /\ UNCHANGED frame_num
    /\ UNCHANGED <<envv, term, current_frame, gate, exit_cause, restores, verified,
                   records, log, handlers, in_handler>>

\* render_frame: the tag replacement, then "\033[2J\033[H\033[?25l".
render_clear ==
    /\ At("render_clear")
    /\ cursor_visible' = FALSE
    /\ pc' = "render_write"
    /\ UNCHANGED <<envv, alt_screen, raw, old_settings, anim, gate, hist, handlers, in_handler>>

\* render_frame: write(WHITE + frame); flush.  A failing write is logged
\* and re-raised into the per-frame except Exception.
render_write ==
    /\ At("render_write")
    /\ pc' = IF frame_num \in broken THEN "frame_except" ELSE "sleep"
    /\ UNCHANGED <<envv, term, anim, gate, hist, handlers, in_handler>>

\* time.sleep(frame_rate)
sleep_frame ==
    /\ At("sleep")
    /\ pc' = "assign"
    /\ UNCHANGED <<envv, term, anim, gate, hist, handlers, in_handler>>

\* Variant: the resume index is the frame after the one just shown.
assign_frame_Next ==
    /\ At("assign")
    /\ current_frame' = frame_num + 1
    /\ pc' = ForNext(frame_num)
    /\ frame_num' = IF frame_num + 1 < RangeEnd THEN frame_num + 1 ELSE frame_num
    /\ UNCHANGED <<envv, term, gate, hist, handlers, in_handler>>

\* current_frame = frame_num, then the for statement advances.
assign_frame ==
    /\ At("assign")
    /\ current_frame' = frame_num
    /\ pc' = ForNext(frame_num)
    /\ frame_num' = IF frame_num + 1 < RangeEnd THEN frame_num + 1 ELSE frame_num
    /\ UNCHANGED <<envv, term, gate, hist, handlers, in_handler>>

\* except Exception (per frame): logging.error; continue.
frame_except ==
    /\ At("frame_except")
    /\ pc' = ForNext(frame_num)
    /\ frame_num' = IF frame_num + 1 < RangeEnd THEN frame_num + 1 ELSE frame_num
    /\ UNCHANGED <<envv, term, current_frame, gate, hist, handlers, in_handler>>

\* After the for loop: current_frame = 1, back to while True.
wrap_frame ==
    /\ At("wrap")
    /\ current_frame' = 1
    /\ frame_num' = 0
    /\ pc' = "while"
    /\ UNCHANGED <<envv, term, gate, hist, handlers, in_handler>>

(***************************************************************************)
(* The Auth Gate: verify_password, get_hidden_input, getch, log_attempt.   *)
(***************************************************************************)
\* except KeyboardInterrupt: the handler is entered and calls
\* verify_password(); nothing of the animation state is touched.
kbd_handler ==
    /\ At("kbd_handler")
    /\ pc' = "vp_backend"
    /\ success' = FALSE
    /\ exc' = NoException
    /\ records' = 0
    /\ log' = <<>>
    /\ UNCHANGED <<envv, term, anim, password, field_pos, last_key, exit_cause, restores,
                   verified, int_at, rendered, handlers, in_handler>>

\* verify_password: getpwuid, import spwd / crypt, spwd.getspnam.  An
\* ImportError falls back to the dscl branch; any other exception goes to
\* except Exception.
vp_backend ==
    /\ At("vp_backend")
    /\ IF backend = "denied"
         THEN /\ pc' = "vp_except_err"
              /\ exc' = PermissionError
         ELSE /\ pc' = "draw_prompt"
              /\ UNCHANGED exc
    /\ UNCHANGED <<envv, term, anim, password, field_pos, success, last_key, hist,
                   handlers, in_handler>>

\* get_hidden_input: draw_password_prompt() (cursor hidden, box drawn,
\* cursor shown), password = '', field_pos = 0.
draw_password_prompt ==
    /\ At("draw_prompt")
    /\ cursor_visible' = TRUE
    /\ password' = <<>>
    /\ field_pos' = 0
    /\ pc' = "getch"
    /\ UNCHANGED <<envv, alt_screen, raw, old_settings, anim, success, exc, last_key, hist,
                   handlers, in_handler>>

\* getch: old_settings = tcgetattr(fd); tty.setraw(fd).
getch_setraw ==
    /\ At("getch")
    /\ old_settings' = IF raw THEN "raw" ELSE "cooked"
    /\ raw' = TRUE
    /\ pc' = "read"
    /\ UNCHANGED <<envv, alt_screen, cursor_visible, anim, gate, hist, handlers, in_handler>>

\* getch: sys.stdin.read(1) returns.
getch_read ==
    /\ At("read")
    /\ pc' = "getch_finally"
    /\ UNCHANGED <<envv, term, anim, gate, hist, handlers, in_handler>>

\* Variant: the capacity test is off by one.
CanAppend_OffByOne(pw) == Len(pw) <= FieldWidth

\* The branch of get_hidden_input that appends: any key that is none of
\* Enter, Ctrl+C, Ctrl+U, Backspace, while len(password) < 20.
CanAppend(pw) == Len(pw) < FieldWidth

\* password += char; the empty string read at end of input adds nothing.
AppendKey(pw, c) == IF c = EOF THEN pw ELSE Append(pw, c)

\* password[:-1]
DropLast(pw) == SubSeq(pw, 1, Len(pw) - 1)

\* get_hidden_input: one pass of the while loop on the key c that getch
\* returned, after getch's finally has put old_settings back.
key_press(c) ==
    /\ At("getch_finally")
    /\ raw' = (old_settings = "raw")
    /\ old_settings' = "none"
    /\ last_key' = c
    /\ UNCHANGED <<envv, alt_screen, anim, success, exc, hist, handlers, in_handler>>
    /\ CASE c = Enter ->
              /\ cursor_visible' = FALSE
              /\ pc' = "check"
              /\ UNCHANGED <<password, field_pos>>
         [] c = CtrlC ->
              /\ pc' = "vp_except_int"
              /\ UNCHANGED <<cursor_visible, password, field_pos>>
         [] c = CtrlU ->
              /\ password' = <<>>
              /\ field_pos' = 0
              /\ pc' = "getch"
              /\ UNCHANGED cursor_visible
         [] c = Backspace ->
              /\ IF password # <<>>
                   THEN /\ password' = DropLast(password)
                        /\ field_pos' = field_pos - 1
                   ELSE UNCHANGED <<password, field_pos>>
              /\ pc' = "getch"
              /\ UNCHANGED cursor_visible
         [] OTHER ->
              /\ IF CanAppend(password)
                   THEN /\ password' = AppendKey(password, c)
                        /\ field_pos' = field_pos + 1
                   ELSE UNCHANGED <<password, field_pos>>
              /\ pc' = "getch"
              /\ UNCHANGED cursor_visible

\* crypt.crypt(password, password_hash) encodes the password as UTF-8 and
\* raises UnicodeEncodeError on a lone surrogate.
Encodable(pw) == \A i \in 1..Len(pw) : pw[i] # HighByte

\* The credential check on the returned secret: crypt.crypt(...) ==
\* password_hash, or dscl -authonly.  With no dscl binary subprocess.run
\* raises into except Exception, and so does crypt.crypt on a password it
\* cannot encode.  The frame of get_hidden_input is gone.
credential_check ==
    /\ At("check")
    /\ IF backend = "absent"
         THEN /\ pc' = "vp_except_err"
              /\ exc' = FileNotFoundError
              /\ UNCHANGED success
         ELSE IF backend = "shadow" /\ ~Encodable(password)
         THEN /\ pc' = "vp_except_err"
              /\ exc' = UnicodeEncodeError(password)
              /\ UNCHANGED success
         ELSE /\ pc' = "log_attempt"
              /\ success' = (password = Secret)
              /\ UNCHANGED exc
    /\ password' = <<>>
    /\ field_pos' = 0
    /\ last_key' = "none"
    /\ UNCHANGED <<envv, term, anim, hist, handlers, in_handler>>

\* log_attempt(success, method): the record "Exit attempt by ... -
\* SUCCESS|FAILED using {method}" is written by logging.info; e is the
\* exception whose str() the method text embeds (NoException: none).
log_attempt(s, method, e) ==
    /\ records' = records + 1
    /\ log' = Append(log, [outcome |-> s, method |-> method, detail |-> e])

\* log_attempt(success, 'Linux shadow password' | 'macOS dscl') in the try
\* body.
vp_log ==
    /\ At("log_attempt")
    /\ log_attempt(success, IF backend = "shadow" THEN "Linux shadow password"
                                                  ELSE "macOS dscl", NoException)
    /\ pc' = "logged"
    /\ UNCHANGED <<envv, term, anim, gate, exit_cause, restores, verified, int_at, rendered,
                   handlers, in_handler>>

\* return success; play_animation: if verify_password(): ... else continue.
vp_return ==
    /\ At("logged")
    /\ IF success
         THEN /\ verified' = TRUE
              /\ pc' = "exit_reset"
         ELSE /\ pc' = "while"
              /\ UNCHANGED verified
    /\ UNCHANGED <<envv, term, anim, gate, exit_cause, restores, records, log, int_at, rendered,
                   handlers, in_handler>>

\* Variant: the cancelled input is submitted to the credential check.
vp_except_int_Verify ==
    /\ At("vp_except_int")
    /\ pc' = "check"
    /\ UNCHANGED <<envv, term, anim, gate, hist, handlers, in_handler>>

\* except (KeyboardInterrupt, EOFError): log_attempt(False, 'interrupted')
vp_except_int ==
    /\ At("vp_except_int")
    /\ log_attempt(FALSE, "interrupted", NoException)
    /\ pc' = "vp_return_false"
    /\ UNCHANGED <<envv, term, anim, gate, exit_cause, restores, verified, int_at, rendered,
                   handlers, in_handler>>

\* except Exception as e: log_attempt(False, f'error: {str(e)}')
vp_except_err ==
    /\ At("vp_except_err")
    /\ log_attempt(FALSE, "error", exc)
    /\ pc' = "vp_return_false"
    /\ UNCHANGED <<envv, term, anim, gate, exit_cause, restores, verified, int_at, rendered,
                   handlers, in_handler>>

\* Variant: a failed attempt asks for the password again.
vp_return_false_Retry ==
    /\ At("vp_return_false")
    /\ pc' = "vp_backend"
    /\ UNCHANGED <<envv, term, anim, gate, hist, handlers, in_handler>>

\* return False from either except clause; play_animation: continue.
vp_return_false ==
    /\ At("vp_return_false")
    /\ pc' = "while"
    /\ UNCHANGED <<envv, term, anim, gate, hist, handlers, in_handler>>

(***************************************************************************)
(* The exits.                                                              *)
(***************************************************************************)
\* sys.stdout.write(RESET); flush; logging.info("Terminal lock ended ...").
\* A failing write or lookup raises into the outer except Exception.
exit_reset ==
    /\ At("exit_reset")
    /\ \/ pc' = "exit_restore"
       \/ pc' = "pa_except"
    /\ UNCHANGED <<envv, term, anim, gate, hist, handlers, in_handler>>

\* restore_terminal_state() on the authenticated exit.
exit_restore ==
    /\ At("exit_restore")
    /\ restore_terminal_state
    /\ pc' = "sys_exit"
    /\ UNCHANGED <<envv, raw, old_settings, anim, gate, exit_cause, verified, records, log,
                   int_at, rendered, handlers, in_handler>>

\* sys.exit(0): SystemExit passes both except Exception clauses.
sys_exit ==
    /\ At("sys_exit")
    /\ pc' = "exited"
    /\ exit_cause' = "auth"
    /\ UNCHANGED <<envv, term, anim, gate, restores, verified, records, log, int_at, rendered,
                   handlers, in_handler>>

\* play_animation, except Exception: logging.critical;
\* restore_terminal_state(); raise.
pa_except ==
    /\ At("pa_except")
    /\ restore_terminal_state
    /\ pc' = "main_except"
    /\ UNCHANGED <<envv, raw, old_settings, anim, gate, exit_cause, verified, records, log,
                   int_at, rendered, handlers, in_handler>>

\* __main__, except Exception: logging.critical; write(RESET);
\* restore_terminal_state().
main_except ==
    /\ At("main_except")
    /\ restore_terminal_state
    /\ pc' = "main_raise"
    /\ UNCHANGED <<envv, raw, old_settings, anim, gate, exit_cause, verified, records, log,
                   int_at, rendered, handlers, in_handler>>

\* __main__: flush; raise e: the interpreter ends with the error.
main_raise ==
    /\ At("main_raise")
    /\ pc' = "exited"
    /\ exit_cause' = "error"
    /\ UNCHANGED <<envv, term, anim, gate, restores, verified, records, log, int_at, rendered,
                   handlers, in_handler>>

(***************************************************************************)
(* Signals.  SIGINT keeps Python's default handler, which raises           *)
(* KeyboardInterrupt in the main thread wherever it is; the innermost      *)
(* enclosing try with a matching except clause receives it.                *)
(***************************************************************************)
\* Positions inside "try:" of the while loop (the for loop and its
\* per-frame except Exception handler, which does not match).
LoopPcs == {"while", "fetch", "render_clear", "render_write", "sleep", "assign",
            "frame_except", "wrap"}

\* Positions inside verify_password's try body.
GatePcs == {"vp_backend", "draw_prompt", "getch", "read", "getch_finally", "check",
            "log_attempt", "logged"}

\* Positions no "except KeyboardInterrupt" encloses: __main__, the startup
\* of play_animation, the bodies of except clauses, the exit path.
OpenPcs == {"main_log", "save", "install_tstp", "install_quit", "log_start",
            "kbd_handler", "vp_except_int", "vp_except_err", "vp_return_false",
            "exit_reset", "exit_restore", "sys_exit", "pa_except", "main_except",
            "main_raise"}

\* KeyboardInterrupt in the render loop: caught by "except
\* KeyboardInterrupt" of play_animation; current_frame stays what the last
\* completed "current_frame = frame_num" made it.
sigint_in_loop ==
    /\ pc \in LoopPcs
    /\ in_handler = "none"
    /\ pc' = "kbd_handler"
    /\ int_at' = IF pc = "sleep" THEN frame_num ELSE 0
    /\ rendered' = 0
    /\ frame_num' = 0
    /\ UNCHANGED <<envv, term, current_frame, gate, exit_cause, restores, verified, records,
                   log, handlers, in_handler>>

\* KeyboardInterrupt inside verify_password's try body: getch's finally
\* runs if the read was in progress (not if the finally block itself was
\* executing), then "except (KeyboardInterrupt, EOFError)" takes it.
sigint_in_gate ==
    /\ pc \in GatePcs
    /\ in_handler = "none"
    /\ pc' = "vp_except_int"
    /\ raw' = IF pc = "read" THEN (old_settings = "raw") ELSE raw
    /\ old_settings' = "none"
    /\ password' = <<>>
    /\ field_pos' = 0
    /\ last_key' = "none"
    /\ UNCHANGED <<envv, alt_screen, cursor_visible, anim, success, exc, hist, handlers,
                   in_handler>>

\* KeyboardInterrupt anywhere else: no handler matches (except Exception
\* does not), the interpreter ends with the traceback.
sigint_uncaught ==
    /\ pc \in OpenPcs
    /\ in_handler = "none"
    /\ pc' = "exited"
    /\ exit_cause' = "interrupt"
    /\ UNCHANGED <<envv, term, anim, gate, restores, verified, records, log, int_at, rendered,
                   handlers, in_handler>>

\* A SIGTSTP or SIGQUIT whose handler is installed arrives: Python runs
\* the handler between two bytecodes of the main thread.
signal_delivery(sig) ==
    /\ pc # "exited"
    /\ in_handler = "none"
    /\ sig \in handlers
    /\ in_handler' = sig
    /\ UNCHANGED <<pc, envv, term, anim, gate, hist, handlers>>

\* sigtstp_handler: logging.warning(...); pass
sigtstp_handler ==
    /\ in_handler = "SIGTSTP"
    /\ in_handler' = "none"
    /\ UNCHANGED <<pc, envv, term, anim, gate, hist, handlers>>

\* Variant: the handler restores the terminal and ends the process.
sigquit_handler_Quit ==
    /\ in_handler = "SIGQUIT"
    /\ in_handler' = "none"
    /\ restore_terminal_state
    /\ pc' = "exited"
    /\ exit_cause' = "signal"
    /\ UNCHANGED <<envv, raw, old_settings, anim, gate, verified, records, log, int_at, rendered,
                   handlers>>

\* sigquit_handler: logging.warning(...); pass
sigquit_handler ==
    /\ in_handler = "SIGQUIT"
    /\ in_handler' = "none"
    /\ UNCHANGED <<pc, envv, term, anim, gate, hist, handlers>>

(***************************************************************************)
(* Specifications.                                                         *)
(***************************************************************************)
Startup ==
    \/ main_start
    \/ startup_save
    \/ install_sigtstp
    \/ install_sigquit
    \/ log_start

Animate ==
    \/ loop_enter
    \/ fetch_frame
    \/ render_clear
    \/ render_write
    \/ sleep_frame
    \/ assign_frame
    \/ frame_except
    \/ wrap_frame

Authenticate ==
    \/ kbd_handler
    \/ vp_backend
    \/ draw_password_prompt
    \/ getch_setraw
    \/ getch_read
    \/ credential_check
    \/ vp_log
    \/ vp_return
    \/ vp_except_int
    \/ vp_except_err
    \/ vp_return_false

Leave ==
    \/ exit_reset
    \/ exit_restore
    \/ sys_exit
    \/ pa_except
    \/ main_except
    \/ main_raise

Interrupt ==
    \/ sigint_in_loop
    \/ sigint_in_gate
    \/ sigint_uncaught

\* The user types at most MaxTyped characters per gate cycle.
ProgramKey ==
    \E c \in ProgramKeys :
        /\ c = "a" => Len(password) < MaxTyped
        /\ key_press(c)

Next ==
    \/ Startup
    \/ Animate
    \/ Authenticate
    \/ ProgramKey
    \/ Leave
    \/ Interrupt

\* The whole program under SIGINT, keys and credential results.
Spec == Init /\ [][Next]_vars

\* The whole program with fair scheduling of the render loop: the single
\* Python thread keeps executing its next statement.
FairSpec == Init /\ [][Next]_vars /\ WF_vars(Animate)

\* The whole program, the thread executing its next statement whenever it
\* has one (in the loop, in the gate, on the exit paths); keys and signals
\* arrive or not.
ResolveSpec ==
    /\ Init
    /\ [][Next]_vars
    /\ WF_vars(Animate)
    /\ WF_vars(Authenticate)
    /\ WF_vars(Leave)

\* SIGTSTP and SIGQUIT deliveries and the two handlers.
Signals ==
    \/ \E sig \in {"SIGTSTP", "SIGQUIT"} : signal_delivery(sig)
    \/ sigtstp_handler
    \/ sigquit_handler

SignalHosts == { <<{10, 235}, {57}, "dscl">>, <<{}, {}, "denied">> }

SignalInit ==
    /\ Init
    /\ <<missing, broken, backend>> \in SignalHosts

SignalNext ==
    \/ Next
    \/ Signals

\* The whole program with SIGTSTP and SIGQUIT delivered at any moment.
SignalSpec == SignalInit /\ [][SignalNext]_vars

\* get_hidden_input alone: the state right after the prompt is drawn on an
\* interrupt during the first frame, then any keys, end of input included.
ReaderInit ==
    /\ pc = "getch"
    /\ current_frame = 1
    /\ frame_num = 0
    /\ missing = {}
    /\ broken = {}
    /\ backend = "shadow"
    /\ alt_screen = TRUE
    /\ cursor_visible = TRUE
    /\ raw = FALSE
    /\ old_settings = "none"
    /\ handlers = {"SIGTSTP", "SIGQUIT"}
    /\ in_handler = "none"
    /\ password = <<>>
    /\ field_pos = 0
    /\ success = FALSE
    /\ exc = NoException
    /\ exit_cause = "none"
    /\ restores = 0
    /\ verified = FALSE
    /\ records = 0
    /\ log = <<>>
    /\ last_key = "none"
    /\ int_at = 0
    /\ rendered = 0

CtlCount(pw) == Cardinality({i \in 1..Len(pw) : pw[i] = Tab})

ReaderKey ==
    \E c \in ReaderKeys :
        /\ c = Tab => CtlCount(password) < MaxCtl
        /\ c = EOF => field_pos < MaxFieldPos
        /\ key_press(c)

ReaderNext ==
    \/ getch_setraw
    \/ getch_read
    \/ ReaderKey

ReaderSpec == ReaderInit /\ [][ReaderNext]_vars

GateKeys == ProgramKeys \cup {HighByte}

\* verify_password alone, on every host: the state in which "except
\* KeyboardInterrupt" is entered on an interrupt during the first frame,
\* then any keys, a byte that is not UTF-8 included.
GateInit ==
    /\ pc = "kbd_handler"
    /\ current_frame = 1
    /\ frame_num = 0
    /\ \E h \in Hosts :
          /\ missing = h[1]
          /\ broken = h[2]
          /\ backend = h[3]
    /\ alt_screen = TRUE
    /\ cursor_visible = FALSE
    /\ raw = FALSE
    /\ old_settings = "none"
    /\ handlers = {"SIGTSTP", "SIGQUIT"}
    /\ in_handler = "none"
    /\ password = <<>>
    /\ field_pos = 0
    /\ success = FALSE
    /\ exc = NoException
    /\ exit_cause = "none"
    /\ restores = 0
    /\ verified = FALSE
    /\ records = 0
    /\ log = <<>>
    /\ last_key = "none"
    /\ int_at = 0
    /\ rendered = 0

GateKey ==
    \E c \in GateKeys :
        /\ c \in {"a", HighByte} => Len(password) < MaxTyped
        /\ key_press(c)

GateNext ==
    \/ Authenticate
    \/ GateKey

GateSpec == GateInit /\ [][GateNext]_vars

\* verify_password alone, the thread executing its next statement whenever
\* it has one; the user may stop typing.
GateFairSpec == GateInit /\ [][GateNext]_vars /\ WF_vars(Authenticate)

(***************************************************************************)
(* Properties.                                                             *)
(***************************************************************************)
\* Every position of one gate cycle: the body of "except
\* KeyboardInterrupt" up to the return of verify_password.
GateCyclePcs == GatePcs \cup {"kbd_handler", "vp_except_int", "vp_except_err",
                              "vp_return_false"}

\* Every position inside play_animation (all but those of __main__).
PlayAnimationPcs == (LoopPcs \cup GateCyclePcs \cup OpenPcs)
                        \ {"main_log", "main_except", "main_raise"}

\* C1: the process, once in play_animation, never terminates unless
\* verify_password returned True for the current attempt or a fatal
\* (non-interrupt) error occurred; an interrupt alone never ends it.
C1_OnlyAuthEndsSession ==
    [][(pc \in PlayAnimationPcs /\ pc' = "exited") =>
          (verified' \/ exit_cause' = "error")]_vars

\* C2: whenever the process has ended, the alternate screen has been left,
\* the cursor is visible and the input mode is not raw.
C2_TerminalSaneAtExit ==
    pc = "exited" => (~alt_screen /\ cursor_visible /\ ~raw)

\* C3: restore_terminal_state has been called exactly once when the
\* process has ended by the authenticated exit or by the fatal-error exit.
C3_RestoreExactlyOnce ==
    (pc = "exited" /\ exit_cause \in {"auth", "error"}) => restores = 1

VerifyPcs == GatePcs \cup {"vp_except_int", "vp_except_err", "vp_return_false"}

\* C5: whenever control leaves verify_password, the gate ends in Success
\* (verify_password returns True, the exit path is taken) if the credential
\* check returned true, and otherwise the process is back in the render
\* loop.
C5_SuccessIffCheckTrue ==
    [][(pc \in VerifyPcs /\ pc' \notin VerifyPcs) =>
          IF success
            THEN pc' = "exit_reset" /\ verified'
            ELSE pc' = "while"]_vars

\* C6: when verify_password returns, exactly one AttemptRecord has been
\* emitted in the cycle, and a key press that does not end the cycle emits
\* none.
C6_OneRecordPerCycle ==
    [][/\ (pc \in {"logged", "vp_return_false"} /\ pc' \in {"while", "exit_reset"})
            => records = 1
       /\ (pc = "getch_finally" /\ pc' = "getch")
            => (records = 0 /\ records' = 0)]_vars

\* C7: the password buffer never holds more than 20 characters; a key that
\* would append at 20 characters leaves the buffer unchanged; Backspace on
\* the empty buffer leaves it empty.
C7_BufferCapped ==
    /\ [](Len(password) <= FieldWidth)
    /\ [][(pc = "getch_finally" /\ pc' = "getch") =>
            /\ (Len(password) = FieldWidth /\ last_key' \notin {CtrlU, Backspace})
                  => password' = password
            /\ (password = <<>> /\ last_key' = Backspace)
                  => password' = <<>>]_vars

\* C7 witness: a Tab was the last key read and the buffer holds 20
\* characters none of which is a Tab: the key arrived at capacity and was
\* dropped.
C7_Witness ==
    /\ pc = "getch"
    /\ last_key = Tab
    /\ Len(password) = FieldWidth
    /\ CtlCount(password) = 0

\* C8: after a SIGINT during the sleep of frame k and a failed attempt, the
\* first frame handed to render_frame is frame k.
C8_ResumeAtInterruptedFrame ==
    [][(pc = "fetch" /\ pc' = "render_clear" /\ int_at # 0) => frame_num = int_at]_vars

\* C9: with all frame files present, the first frame handed to
\* render_frame after the start or a resume is frame current_frame, every
\* later one is the cyclic successor of the one before (235 is followed by
\* 1), and as long as the loop is not suspended frames keep being handed to
\* render_frame.
C9_CyclicOrder ==
    /\ [][(missing = {} /\ pc = "fetch" /\ pc' = "render_clear") =>
            IF rendered = 0
              THEN frame_num = current_frame
              ELSE frame_num = (rendered % FrameCount) + 1]_vars
    /\ (missing = {} => []<>(pc = "render_clear" \/ pc \notin LoopPcs))

\* C9 witness: all files present, the loop resumed at frame 57 after a
\* cancelled prompt (the cursor the prompt showed is not yet hidden) and
\* frame 57 is handed to render_frame.
C9_Witness ==
    /\ missing = {}
    /\ pc = "render_clear"
    /\ cursor_visible
    /\ current_frame = 57
    /\ rendered = 57

\* C10: current_frame is always in [1, 235], and it decreases only in the
\* step after the for loop has run out of indices, to 1.
C10_FrameIndexValid ==
    /\ [](current_frame \in 1..FrameCount)
    /\ [][current_frame' < current_frame => (pc = "wrap" /\ current_frame' = 1)]_vars

\* C10 witness: frame 235 is missing, the last frame shown was 234 and the
\* index has wrapped to 1.
C10_Witness ==
    /\ FrameCount \in missing
    /\ pc = "while"
    /\ rendered = FrameCount - 1
    /\ current_frame = 1

\* C11: a frame whose file is missing is never handed to render_frame; the
\* step that finds frame m missing goes straight to the fetch of m + 1 (or,
\* after 235, to the end of the pass) without rendering, sleeping, raising
\* or exiting; and every frame passed over between two frames handed to
\* render_frame is a missing one (with 10 missing, 11 follows 9).
C11_MissingFrameSkipped ==
    /\ [](pc \in {"render_clear", "render_write", "sleep", "assign", "frame_except"}
            => frame_num \notin missing)
    /\ [][(pc = "fetch" /\ frame_num \in missing /\ pc' # "kbd_handler") =>
            /\ rendered' = rendered
            /\ exit_cause' = "none"
            /\ IF frame_num < FrameCount
                 THEN pc' = "fetch" /\ frame_num' = frame_num + 1
                 ELSE pc' = "wrap"]_vars
    /\ [][(pc = "fetch" /\ pc' = "render_clear" /\ rendered # 0) =>
            \A k \in 1..FrameCount :
                (IF rendered < frame_num
                   THEN rendered < k /\ k < frame_num
                   ELSE rendered < k \/ k < frame_num)
                => k \in missing]_vars

\* C11 witness: frame 10 is missing, frame 9 was the last one handed to
\* render_frame and the loop is about to fetch frame 11.
C11_Witness ==
    /\ 10 \in missing
    /\ pc = "fetch"
    /\ frame_num = 11
    /\ rendered = 9

\* C12: no record written by log_attempt holds a key that was read at the
\* password prompt: a record is made of the outcome, the method and, for an
\* error, text that does not depend on what was typed.
C12_SecretNotLogged ==
    \A i \in 1..Len(log) :
        \A j \in 1..Len(log[i].detail.quoted) :
            log[i].detail.quoted[j] \notin GateKeys

\* C13: an unavailable shadow-password mechanism is tolerated by falling
\* back to the directory-service branch: whatever the lookup of the shadow
\* entry does, verify_password goes on to prompt for the secret (only an
\* interrupt keeps it from doing so) and reports no error at that point.
C13_FallbackOnUnavailable ==
    [][(pc = "vp_backend" /\ pc' # "vp_except_int") =>
          (pc' = "draw_prompt" /\ exc' = NoException)]_vars

\* C14: once a write of render_frame has failed, the loop handles no further
\* frame: the next step of the program is the restore path of the fatal
\* exit (only an interrupt can come first).
C14_WriteFailureFatal ==
    [][(pc = "frame_except" /\ pc' # "kbd_handler") => pc' = "pa_except"]_vars

\* C15: the terminal is in raw mode only while a getch is in progress
\* (between tty.setraw and the tcsetattr of its finally clause), and the
\* attributes getch saves are never raw ones.
C15_RawScopedToGetch ==
    /\ raw => pc \in {"read", "getch_finally"}
    /\ old_settings # "raw"

\* C16: when the key read at the prompt is Ctrl+C, verify_password goes to
\* its interrupt clause and from there back to the render loop: no
\* credential check runs, the result is False (nothing is verified, no
\* error is raised), the one record written says "interrupted", and the
\* render loop is reached.
C16_CancelSkipsVerification ==
    /\ [](last_key = CtrlC =>
            /\ pc \in {"vp_except_int", "vp_return_false", "while"}
            /\ ~success /\ ~verified /\ exc = NoException
            /\ log = IF pc = "vp_except_int"
                       THEN <<>>
                       ELSE <<[outcome |-> FALSE, method |-> "interrupted",
                               detail |-> NoException]>>)
    /\ (last_key = CtrlC) ~> (pc = "while")

\* C16 witness: the account's password was typed and then cancelled: the
\* render loop is reached with nothing verified.
C16_Witness ==
    /\ pc = "while"
    /\ last_key = CtrlC
    /\ password = Secret

\* C17: the handler of the interrupt is never entered from inside
\* render_frame with the clear sequence written and the frame body not yet
\* written and flushed: the render loop is left only between frames or
\* during the sleep.
C17_InterruptAtTickBoundary ==
    [][(pc \in LoopPcs /\ pc' = "kbd_handler") => pc # "render_write"]_vars

\* C18: each key read changes the buffer as the replay of the keys does: a
\* printable key is appended while fewer than 20 characters are held,
\* Backspace removes the last character, Ctrl+U empties the buffer, and
\* every other key leaves the buffer as it is (only printable keys are
\* appended); Enter returns the buffer unchanged.
C18_SecretIsReplayOfKeys ==
    [][(pc = "getch_finally" /\ pc' \in {"getch", "check"}) =>
          password' =
             CASE last_key' \in Printable /\ Len(password) < FieldWidth ->
                     Append(password, last_key')
               [] last_key' = Backspace /\ password # <<>> ->
                     SubSeq(password, 1, Len(password) - 1)
               [] last_key' = CtrlU -> <<>>
               [] OTHER -> password]_vars

C20_FieldPosIsLength ==
    pc \in {"getch", "read", "getch_finally"} =>
        (field_pos = Len(password) /\ field_pos \in 0..FieldWidth)

====
